---- MODULE Spec2Model ----
(***************************************************************************)
(* keymap.h of ADB2USB: the 128-entry table that maps the 7-bit key        *)
(* identifier sent by an Apple Extended Keyboard II to the key code that   *)
(* is reported over USB, and the lookup that callers perform on it.        *)
(*                                                                         *)
(* A key code is either an integer literal of the initializer (a character *)
(* literal is its ASCII code, as in C) or one of the KEY_* names of the    *)
(* keyboard library.  The header does not define the KEY_* values, so a    *)
(* name stands for itself: two names are equal only when they are the same *)
(* name, and no name equals a literal (in particular none equals 0).       *)
(***************************************************************************)
EXTENDS Integers, Sequences, FiniteSets

\* Number of callers that index the table concurrently.
NumCallers == 2

\* uint8_t keymap[128]
KEYMAP_SIZE == 128

\* An integer literal of the initializer ('a' is 97).
Lit(n) == [lit |-> n]

\* A KEY_* name of the keyboard library.
Sym(s) == [sym |-> s]

\* The initializer list of keymap, in order (TLA+ tuples count from 1).
KeymapInitializer ==
  <<
     Lit(97),                  \* 0x00  'a'
     Lit(115),                 \* 0x01  's'
     Lit(100),                 \* 0x02  'd'
     Lit(102),                 \* 0x03  'f'
     Lit(104),                 \* 0x04  'h'
     Lit(103),                 \* 0x05  'g'
     Lit(122),                 \* 0x06  'z'
     Lit(120),                 \* 0x07  'x'
     Lit(99),                  \* 0x08  'c'
     Lit(118),                 \* 0x09  'v'
     Lit(0),                   \* 0x0A  0
     Lit(98),                  \* 0x0B  'b'
     Lit(113),                 \* 0x0C  'q'
     Lit(119),                 \* 0x0D  'w'
     Lit(101),                 \* 0x0E  'e'
     Lit(114),                 \* 0x0F  'r'
     Lit(121),                 \* 0x10  'y'
     Lit(116),                 \* 0x11  't'
     Lit(49),                  \* 0x12  '1'
     Lit(50),                  \* 0x13  '2'
     Lit(51),                  \* 0x14  '3'
     Lit(52),                  \* 0x15  '4'
     Lit(54),                  \* 0x16  '6'
     Lit(53),                  \* 0x17  '5'
     Lit(61),                  \* 0x18  '='
     Lit(57),                  \* 0x19  '9'
     Lit(55),                  \* 0x1A  '7'
     Lit(45),                  \* 0x1B  '-'
     Lit(56),                  \* 0x1C  '8'
     Lit(48),                  \* 0x1D  '0'
     Lit(93),                  \* 0x1E  ']'
     Lit(111),                 \* 0x1F  'o'
     Lit(117),                 \* 0x20  'u'
     Lit(91),                  \* 0x21  '['
     Lit(105),                 \* 0x22  'i'
     Lit(112),                 \* 0x23  'p'
     Sym("KEY_RETURN"),        \* 0x24  
     Lit(108),                 \* 0x25  'l'
     Lit(106),                 \* 0x26  'j'
     Lit(\h27),                \* 0x27  0x27
     Lit(107),                 \* 0x28  'k'
     Lit(59),                  \* 0x29  ';'
     Lit(92),                  \* 0x2A  '\\'
     Lit(44),                  \* 0x2B  ','
     Lit(47),                  \* 0x2C  '/'
     Lit(110),                 \* 0x2D  'n'
     Lit(109),                 \* 0x2E  'm'
     Lit(46),                  \* 0x2F  '.'
     Sym("KEY_TAB"),           \* 0x30  
     Lit(32),                  \* 0x31  ' '
     Lit(96),                  \* 0x32  '`'
     Sym("KEY_BACKSPACE"),     \* 0x33  
     Lit(0),                   \* 0x34  0
     Sym("KEY_ESC"),           \* 0x35  
     Sym("KEY_LEFT_CTRL"),     \* 0x36  
     Sym("KEY_LEFT_GUI"),      \* 0x37  
     Sym("KEY_LEFT_SHIFT"),    \* 0x38  
     Sym("KEY_CAPS_LOCK"),     \* 0x39  
     Sym("KEY_LEFT_ALT"),      \* 0x3A  
     Sym("KEY_LEFT_ARROW"),    \* 0x3B  
     Sym("KEY_RIGHT_ARROW"),   \* 0x3C  
     Sym("KEY_DOWN_ARROW"),    \* 0x3D  
     Sym("KEY_UP_ARROW"),      \* 0x3E  
     Lit(0),                   \* 0x3F  0
     Lit(0),                   \* 0x40  0
     Sym("KEY_KP_DOT"),        \* 0x41  
     Lit(0),                   \* 0x42  0
     Sym("KEY_KP_ASTERISK"),   \* 0x43  
     Lit(0),                   \* 0x44  0
     Sym("KEY_KP_PLUS"),       \* 0x45  
     Lit(0),                   \* 0x46  0
     Sym("KEY_NUM_LOCK"),      \* 0x47  
     Lit(0),                   \* 0x48  0
     Lit(0),                   \* 0x49  0
     Lit(0),                   \* 0x4A  0
     Sym("KEY_KP_SLASH"),      \* 0x4B  
     Sym("KEY_KP_ENTER"),      \* 0x4C  
     Lit(0),                   \* 0x4D  0
     Sym("KEY_KP_MINUS"),      \* 0x4E  
     Lit(0),                   \* 0x4F  0
     Lit(0),                   \* 0x50  0
     Lit(61),                  \* 0x51  '='
     Sym("KEY_KP_0"),          \* 0x52  
     Sym("KEY_KP_1"),          \* 0x53  
     Sym("KEY_KP_2"),          \* 0x54  
     Sym("KEY_KP_3"),          \* 0x55  
     Sym("KEY_KP_4"),          \* 0x56  
     Sym("KEY_KP_5"),          \* 0x57  
     Sym("KEY_KP_6"),          \* 0x58  
     Sym("KEY_KP_7"),          \* 0x59  
     Lit(0),                   \* 0x5A  0
     Sym("KEY_KP_8"),          \* 0x5B  
     Sym("KEY_KP_9"),          \* 0x5C  
     Lit(0),                   \* 0x5D  0
     Lit(0),                   \* 0x5E  0
     Lit(0),                   \* 0x5F  0
     Sym("KEY_F5"),            \* 0x60  
     Sym("KEY_F6"),            \* 0x61  
     Sym("KEY_F7"),            \* 0x62  
     Sym("KEY_F3"),            \* 0x63  
     Sym("KEY_F8"),            \* 0x64  
     Sym("KEY_F9"),            \* 0x65  
     Lit(0),                   \* 0x66  0
     Sym("KEY_F11"),           \* 0x67  
     Lit(0),                   \* 0x68  0
     Sym("KEY_F13"),           \* 0x69  
     Lit(0),                   \* 0x6A  0
     Sym("KEY_F14"),           \* 0x6B  
     Lit(0),                   \* 0x6C  0
     Sym("KEY_F10"),           \* 0x6D  
     Lit(0),                   \* 0x6E  0
     Sym("KEY_F12"),           \* 0x6F  
     Lit(0),                   \* 0x70  0
     Sym("KEY_F15"),           \* 0x71  
     Sym("KEY_INSERT"),        \* 0x72  
     Sym("KEY_HOME"),          \* 0x73  
     Sym("KEY_PAGE_UP"),       \* 0x74  
     Sym("KEY_DELETE"),        \* 0x75  
     Sym("KEY_F4"),            \* 0x76  
     Sym("KEY_END"),           \* 0x77  
     Sym("KEY_F2"),            \* 0x78  
     Sym("KEY_PAGE_DOWN"),     \* 0x79  
     Sym("KEY_F1"),            \* 0x7A  
     Sym("KEY_RIGHT_SHIFT"),   \* 0x7B  
     Sym("KEY_RIGHT_ALT"),     \* 0x7C  
     Sym("KEY_RIGHT_CTRL"),    \* 0x7D  
     Lit(0),                   \* 0x7E  0
     Lit(0)                    \* 0x7F  0
  >>

\* The 7-bit identifiers the keyboard sends: 2^7 = 128 of them.
ScanCodes == 0 .. 127

\* The array object: KEYMAP_SIZE elements, indexed from 0; C zero-fills the
\* elements for which the initializer list has no entry.
keymapInit_short ==
  [i \in 0 .. (KEYMAP_SIZE - 2) |->
     IF i + 1 <= Len(KeymapInitializer) THEN KeymapInitializer[i + 1] ELSE Lit(0)]

keymapInit_noNumLock ==
  [i \in 0 .. (KEYMAP_SIZE - 1) |->
     IF i = \h47 THEN Lit(0)
     ELSE IF i + 1 <= Len(KeymapInitializer) THEN KeymapInitializer[i + 1] ELSE Lit(0)]

keymapInit ==
  [i \in 0 .. (KEYMAP_SIZE - 1) |->
     IF i + 1 <= Len(KeymapInitializer) THEN KeymapInitializer[i + 1] ELSE Lit(0)]

VARIABLES
  keymap,     \* the array
  caller,     \* the caller that did the latest lookup, NoCaller before any
  scanCode,   \* the index of the latest lookup
  result      \* the value the latest lookup returned

vars == <<keymap, caller, scanCode, result>>

Callers == 1 .. NumCallers
NoCaller == 0

\* The identifier is the index; the value at that index is the key.
lookup_offByOne(i) == keymap[(i + 1) % KEYMAP_SIZE]

lookup(i) == keymap[i]

Init ==
  /\ keymap = keymapInit
  /\ caller = NoCaller
  /\ scanCode = 0
  /\ result = Lit(0)

\* Caller c reads the element at index i; a read leaves the array alone.
Lookup_readAndClear(c, i) ==
  /\ caller' = c
  /\ scanCode' = i
  /\ result' = lookup(i)
  /\ keymap' = [keymap EXCEPT ![i] = Lit(0)]

Lookup(c, i) ==
  /\ caller' = c
  /\ scanCode' = i
  /\ result' = lookup(i)
  /\ UNCHANGED keymap

Next == \E c \in Callers : \E i \in ScanCodes : Lookup(c, i)

Spec == Init /\ [][Next]_vars

----
\* Key sets named by the content contract.
Zero == Lit(0)
Letters == {Lit(c) : c \in 97 .. 122}                      \* 'a' .. 'z'
Digits == {Lit(c) : c \in 48 .. 57}                        \* '0' .. '9'
\* = - ] [ ' ; \ , / .
Punctuation == {Lit(61), Lit(45), Lit(93), Lit(91), Lit(39), Lit(59), Lit(92),
                Lit(44), Lit(47), Lit(46)}
Space == Lit(32)
Backtick == Lit(96)
Equals == Lit(61)
MainBlockKeys ==
  Letters \cup Digits \cup Punctuation
    \cup {Sym("KEY_RETURN"), Sym("KEY_TAB"), Space, Backtick,
          Sym("KEY_BACKSPACE"), Sym("KEY_ESC")}
ModifierNavKeys ==
  {Sym("KEY_LEFT_CTRL"), Sym("KEY_LEFT_GUI"), Sym("KEY_LEFT_SHIFT"),
   Sym("KEY_CAPS_LOCK"), Sym("KEY_LEFT_ALT"), Sym("KEY_LEFT_ARROW"),
   Sym("KEY_RIGHT_ARROW"), Sym("KEY_DOWN_ARROW"), Sym("KEY_UP_ARROW")}
KeypadKeys ==
  {Sym("KEY_KP_0"), Sym("KEY_KP_1"), Sym("KEY_KP_2"), Sym("KEY_KP_3"),
   Sym("KEY_KP_4"), Sym("KEY_KP_5"), Sym("KEY_KP_6"), Sym("KEY_KP_7"),
   Sym("KEY_KP_8"), Sym("KEY_KP_9"), Sym("KEY_KP_DOT"), Sym("KEY_KP_PLUS"),
   Sym("KEY_KP_MINUS"), Sym("KEY_KP_ASTERISK"), Sym("KEY_KP_SLASH"),
   Sym("KEY_KP_ENTER"), Equals}
FunctionKeys ==
  {Sym("KEY_F1"), Sym("KEY_F2"), Sym("KEY_F3"), Sym("KEY_F4"), Sym("KEY_F5"),
   Sym("KEY_F6"), Sym("KEY_F7"), Sym("KEY_F8"), Sym("KEY_F9"), Sym("KEY_F10"),
   Sym("KEY_F11"), Sym("KEY_F12"), Sym("KEY_F13"), Sym("KEY_F14"),
   Sym("KEY_F15")}
EditKeys ==
  {Sym("KEY_INSERT"), Sym("KEY_HOME"), Sym("KEY_PAGE_UP"),
   Sym("KEY_PAGE_DOWN"), Sym("KEY_DELETE"), Sym("KEY_END")}
RightModifierKeys ==
  {Sym("KEY_RIGHT_SHIFT"), Sym("KEY_RIGHT_ALT"), Sym("KEY_RIGHT_CTRL")}
DocumentedKeys ==
  MainBlockKeys \cup ModifierNavKeys \cup KeypadKeys \cup FunctionKeys
    \cup EditKeys \cup RightModifierKeys

\* The indices the contract lists as unmapped.
UnknownCodes ==
  {\h0A, \h34, \h3F, \h40, \h42, \h44, \h46, \h48, \h49, \h4A, \h4D, \h4F,
   \h50, \h5A, \h5D, \h5E, \h5F, \h66, \h68, \h6A, \h6C, \h6E, \h70, \h7E,
   \h7F}
FunctionUnknownCodes == {\h66, \h68, \h6A, \h6C, \h6E, \h70}

Looked == caller # NoCaller
NonZeroOutputs == {lookup(i) : i \in ScanCodes} \ {Zero}
IndicesOf(v, S) == {i \in S : lookup(i) = v}

----
\* C1: lookup(i) is 0 for exactly the scan codes listed as unmapped: every
\* listed index yields 0 and every other index in 0..127 yields a non-zero
\* key code; a completed lookup returned 0 exactly when its index is listed.
C1_ZeroExactlyOnUnknown ==
  /\ \A i \in ScanCodes : (lookup(i) = Zero) <=> (i \in UnknownCodes)
  /\ Looked => ((result = Zero) <=> (scanCode \in UnknownCodes))

C1_Witness == Looked /\ scanCode = \h7F /\ result = Zero

\* C2: the table has exactly 128 entries, every scan code in 0..127 has a
\* defined key code that a lookup returns, and no index above 127 is in the
\* table's domain.
KeyCodes == {Zero} \cup DocumentedKeys \cup {Sym("KEY_NUM_LOCK")}
C2_TableTotalOn128 ==
  /\ DOMAIN keymap = 0 .. 127
  /\ Cardinality(DOMAIN keymap) = 128
  /\ Len(KeymapInitializer) = 128
  /\ \A i \in ScanCodes : lookup(i) \in KeyCodes
  /\ \A i \in 128 .. 255 : i \notin DOMAIN keymap
  /\ Looked => (scanCode \in DOMAIN keymap /\ result \in KeyCodes)

C2_Witness == Looked /\ scanCode = 127 /\ result = keymap[127]

C4_OutputsAreDocumentedSet == NonZeroOutputs = DocumentedKeys

\* C4 amended: the non-zero outputs are exactly the documented key set plus
\* Num Lock (index 0x47).
C4_OutputsAreDocumentedSetAndNumLock ==
  /\ NonZeroOutputs = DocumentedKeys \cup {Sym("KEY_NUM_LOCK")}
  /\ Sym("KEY_NUM_LOCK") \notin DocumentedKeys
  /\ IndicesOf(Sym("KEY_NUM_LOCK"), ScanCodes) = {\h47}
  /\ Looked => (result = Zero \/ result \in DocumentedKeys
                  \/ (result = Sym("KEY_NUM_LOCK") /\ scanCode = \h47))

C4_Witness == Looked /\ scanCode = \h47 /\ result = Sym("KEY_NUM_LOCK")

\* C5 as stated: every scan code in 0x00..0x39 other than 0x0A and 0x34 maps
\* to a letter, digit, punctuation character, Enter, Tab, Space, Backtick,
\* Backspace or Escape.
C5_MainBlockTo39 ==
  \A i \in (\h00 .. \h39) \ {\h0A, \h34} : lookup(i) \in MainBlockKeys

\* C5 amended: the same for the scan codes in 0x00..0x35 other than 0x0A and
\* 0x34; 0x36..0x39 map to Left-Ctrl, Left-GUI, Left-Shift and Caps-Lock.
C5_MainBlockTo35 ==
  /\ \A i \in (\h00 .. \h35) \ {\h0A, \h34} : lookup(i) \in MainBlockKeys
  /\ \A i \in \h36 .. \h39 :
       lookup(i) \in ModifierNavKeys /\ lookup(i) \notin MainBlockKeys
  /\ (Looked /\ scanCode \in (\h00 .. \h35) \ {\h0A, \h34})
       => result \in MainBlockKeys

C5_Witness == Looked /\ scanCode = \h35 /\ result = Sym("KEY_ESC")

\* C6: scan codes 0x18 (top-row equals) and 0x51 (keypad equals) both map to
\* the literal '='.
C6_BothEqualsKeys ==
  /\ lookup(\h18) = Equals
  /\ lookup(\h51) = Equals
  /\ (Looked /\ scanCode \in {\h18, \h51}) => result = Equals

C6_Witness == Looked /\ scanCode = \h51 /\ result = Lit(61) /\ lookup(\h18) = result

\* C7: within 0x60..0x7A the indices 0x66, 0x68, 0x6A, 0x6C, 0x6E and 0x70
\* are unmapped and every other index maps to a function key or to Insert,
\* Home, Page-Up, Page-Down, Delete or End; each of F1..F15 and each of those
\* six keys is the value of exactly one index of the range.
FunctionRange == \h60 .. \h7A
C7_FunctionBlock ==
  /\ \A i \in FunctionRange :
       IF i \in FunctionUnknownCodes
         THEN lookup(i) = Zero
         ELSE lookup(i) \in FunctionKeys \cup EditKeys
  /\ \A k \in FunctionKeys \cup EditKeys :
       Cardinality(IndicesOf(k, FunctionRange)) = 1
  /\ (Looked /\ scanCode \in FunctionRange) =>
       IF scanCode \in FunctionUnknownCodes
         THEN result = Zero
         ELSE result \in FunctionKeys \cup EditKeys

C7_Witness == Looked /\ scanCode = \h60 /\ result = Sym("KEY_F5")

\* C8: the nine scan codes 0x36..0x3E yield exactly Left-Ctrl, Left-GUI,
\* Left-Shift, Caps-Lock, Left-Alt and the four arrow keys, one key per index
\* and none of them 0.
ModifierRange == \h36 .. \h3E
C8_ModifierBlock ==
  /\ {lookup(i) : i \in ModifierRange} = ModifierNavKeys
  /\ \A i, j \in ModifierRange : lookup(i) = lookup(j) => i = j
  /\ \A i \in ModifierRange : lookup(i) # Zero
  /\ (Looked /\ scanCode \in ModifierRange) => result \in ModifierNavKeys

C8_Witness == Looked /\ scanCode = \h3E /\ result = Sym("KEY_UP_ARROW")

\* C9: lookup(0x00) is 'a', lookup(0x24) is KEY_RETURN, lookup(0x31) is ' '
\* and lookup(0x7A) is KEY_F1.
C9_ReferenceValues ==
  /\ lookup(\h00) = Lit(97)
  /\ lookup(\h24) = Sym("KEY_RETURN")
  /\ lookup(\h31) = Lit(32)
  /\ lookup(\h7A) = Sym("KEY_F1")
  /\ Looked =>
       /\ scanCode = \h00 => result = Lit(97)
       /\ scanCode = \h24 => result = Sym("KEY_RETURN")
       /\ scanCode = \h31 => result = Lit(32)
       /\ scanCode = \h7A => result = Sym("KEY_F1")

C9_Witness == Looked /\ scanCode = \h24 /\ result = Sym("KEY_RETURN")

\* C10: with the KEY_* names pairwise distinct and distinct from the
\* literals, two different mapped scan codes share a value only when they are
\* 0x18 and 0x51; each lowercase letter and each digit is the value of
\* exactly one index.
C10_InjectiveExceptEquals ==
  /\ \A i, j \in ScanCodes :
       (i # j /\ lookup(i) # Zero /\ lookup(i) = lookup(j))
         => {i, j} = {\h18, \h51}
  /\ \A k \in Letters \cup Digits : Cardinality(IndicesOf(k, ScanCodes)) = 1
  /\ (Looked /\ result # Zero) =>
       (IndicesOf(result, ScanCodes) \ {scanCode}) \subseteq {\h18, \h51}

C10_Witness ==
  /\ Looked /\ scanCode = \h18 /\ result # Zero
  /\ IndicesOf(result, ScanCodes) = {\h18, \h51}

====
